---- MODULE Spec2Model ----
(***************************************************************************)
(* pghoard/object_storage/__init__.py: the TransferAgent thread.  One or   *)
(* more agents take transfer requests from the shared transfer_queue,      *)
(* upload or download them through the per-site object storage, keep the   *)
(* per-site statistics and push results to the callback queue of a request *)
(* or to the compression queue.                                            *)
(*                                                                         *)
(* A field a request dict may lack ("blob", "file_size", "callback_queue", *)
(* "target_path") is modelled as a sequence of length at most one: <<>>    *)
(* when the key is absent, <<v>> when it holds v.  Paths are sequences of  *)
(* characters, byte strings are sequences of numbers.                      *)
(***************************************************************************)
EXTENDS Integers, Sequences, FiniteSets, TLC

\* ---------------------------------------------------------------- bounds
\* how many requests the producers hand over in one behaviour
MaxSubmit == 2
\* how many times the remote storage may fail a store or fetch call
MaxFail == 1
\* the longest duration (in clock ticks) of one handler call
MaxElapsed == 1
\* the longest local_path the key is formed of, path by path
MaxPath == 4
\* the longest name of another file in the directory of such a path
MaxName == 2

\* ------------------------------------------------- optional dict entries
Has(opt) == opt # <<>>

\* dict.get(key, default)
Get(opt, default) == IF Has(opt) THEN opt[1] ELSE default

\* ------------------------------------------------------ os.path (posix)
\* s[i:] of a Python string, i counted from 0
From(s, i) == SubSeq(s, i + 1, Len(s))

\* s[:i]
UpTo(s, i) == SubSeq(s, 1, i)

\* s.rfind(c) + 1: the 1-based place of the last c in s, 0 when there is none
RFind1(s, c) ==
    LET hits == {i \in 1..Len(s) : s[i] = c}
    IN  IF hits = {} THEN 0 ELSE CHOOSE i \in hits : \A j \in hits : j <= i

\* s.rstrip(c)
RECURSIVE RStrip(_, _)
RStrip(s, c) ==
    IF s # <<>> /\ s[Len(s)] = c THEN RStrip(UpTo(s, Len(s) - 1), c) ELSE s

\* os.path.basename
basename(p) == From(p, RFind1(p, "/"))

\* os.path.dirname
dirname(p) ==
    LET head == UpTo(p, RFind1(p, "/"))
    IN  IF head # <<>> /\ (\E i \in 1..Len(head) : head[i] # "/")
        THEN RStrip(head, "/")
        ELSE head

\* os.path.splitext(p)[0]: the last dot splits, unless it is before the last
\* separator or only dots lie between the separator and it
splitext0(p) ==
    LET sepIndex == RFind1(p, "/")
        dotIndex == RFind1(p, ".")
    IN  IF dotIndex > sepIndex
           /\ (\E i \in (sepIndex + 1)..(dotIndex - 1) : p[i] # ".")
        THEN UpTo(p, dotIndex - 1)
        ELSE p

\* form_key_path, were the extension left on the name
form_key_path_keeping_extension(file_to_transfer) ==
    LET name == IF file_to_transfer.filetype = "basebackup"
                THEN basename(dirname(file_to_transfer.local_path))
                ELSE basename(file_to_transfer.local_path)
    IN  <<file_to_transfer.site, "/", file_to_transfer.filetype, "/">> \o name

\* TransferAgent.form_key_path: "/".join([site, filetype, name])
form_key_path(file_to_transfer) ==
    LET name == IF file_to_transfer.filetype = "basebackup"
                THEN basename(dirname(file_to_transfer.local_path))
                ELSE splitext0(basename(file_to_transfer.local_path))
    IN  <<file_to_transfer.site, "/", file_to_transfer.filetype, "/">> \o name

\* ------------------------------------------------------------ the harness
\* The configuration, the local files, the remote objects and the requests
\* the producers may hand over: small concrete values of the program's types.
Filetypes == {"basebackup", "xlog", "timeline"}

\* self.config["backup_sites"][site]["object_storage"], a dict in its order:
\* s1 has one usable provider, s2 names a storage type that does not exist,
\* s3 has two usable providers
Config ==
    [s1 |-> << [kind |-> "s3", bucket |-> "b1"] >>,
     s2 |-> << [kind |-> "ftp", bucket |-> "b2"] >>,
     s3 |-> << [kind |-> "s3", bucket |-> "b3"], [kind |-> "google", bucket |-> "g3"] >>]

Sites == DOMAIN Config

XlogPath == <<"/", "d", "/", "a", ".", "x">>

TimelinePath == <<"/", "d", "/", "t", ".", "h">>

BasePath == <<"/", "b", "/", "1", "/", "t", ".", "z">>

BaseOther == <<"/", "b", "/", "1", "/", "u">>

OtherPath == <<"/", "d", "/", "k">>

RemotePath == <<"/", "d", "/", "b", ".", "x">>

TargetPath == <<"/", "r", "/", "b">>

\* local_path + ".metadata"
MetadataPath(local_path) ==
    local_path \o <<".", "m", "e", "t", "a", "d", "a", "t", "a">>

\* the files on the local disk when the agent starts: the xlog file has a
\* metadata sidecar, the timeline file has none
InitialFiles ==
    {XlogPath, MetadataPath(XlogPath), TimelinePath, BasePath, BaseOther, OtherPath}

\* the bytes of a local file (files are read and removed, never written)
FileBytes(path) == <<Len(path)>>

\* the objects in the remote storage when the agent starts
InitialObjects ==
    {[bucket |-> "b1", key |-> <<"s1", "/", "xlog", "/", "b">>,
      blob |-> <<5, 6>>, metadata |-> "m0"]}

Req(id, type, site, filetype, local_path, target_path, blob, file_size, cb) ==
    [id |-> id, type |-> type, site |-> site, filetype |-> filetype,
     local_path |-> local_path, target_path |-> target_path, blob |-> blob,
     metadata |-> "m1", file_size |-> file_size,
     callback_queue |-> IF cb THEN <<id>> ELSE <<>>]

\* uploads whose storage can be resolved and whose source nothing else removes
GoodUploads ==
    {Req("U1", "UPLOAD", "s1", "xlog", XlogPath, <<>>, <<>>, <<3>>, TRUE),
     Req("U3", "UPLOAD", "s1", "timeline", TimelinePath, <<>>, <<7, 7>>, <<>>, TRUE),
     Req("U4", "UPLOAD", "s1", "basebackup", BasePath, <<>>, <<>>, <<4>>, TRUE)}

\* U2 names the file U1 names; U5 goes to the site whose storage type is unknown
OtherUploads ==
    {Req("U2", "UPLOAD", "s1", "xlog", XlogPath, <<>>, <<>>, <<>>, FALSE),
     Req("U5", "UPLOAD", "s2", "xlog", OtherPath, <<>>, <<8>>, <<1>>, TRUE)}

\* D1 asks for a key that is in the storage only once U1 or U2 has stored it
Downloads ==
    {Req("D1", "DOWNLOAD", "s1", "xlog", XlogPath, <<TargetPath>>, <<>>, <<>>, TRUE),
     Req("D2", "DOWNLOAD", "s1", "xlog", RemotePath, <<TargetPath>>, <<>>, <<9>>, TRUE),
     Req("D3", "DOWNLOAD", "s1", "xlog", RemotePath, <<TargetPath>>, <<>>, <<>>, FALSE)}

Controls ==
    {Req("Q1", "QUIT", "s1", "xlog", OtherPath, <<>>, <<>>, <<>>, FALSE),
     Req("X1", "LIST", "s1", "xlog", OtherPath, <<>>, <<>>, <<>>, TRUE)}

\* requests whose filetype is none of basebackup, xlog, timeline
WildRequests ==
    {Req("W1", "UPLOAD", "s1", "wal", OtherPath, <<>>, <<8>>, <<>>, TRUE),
     Req("W2", "DOWNLOAD", "s1", "wal", RemotePath, <<TargetPath>>, <<>>, <<>>, TRUE)}

\* every local_path of up to MaxPath characters, of every filetype, uploaded
\* from memory
KeyChars == {"/", ".", "a"}

KeyPaths == UNION {[1..n -> KeyChars] : n \in 1..MaxPath}

KeyRequests ==
    {Req("K1", "UPLOAD", "s1", filetype, local_path, <<>>, <<1>>, <<>>, FALSE) :
        filetype \in Filetypes, local_path \in KeyPaths}

\* U7 uploads a basebackup from memory to the site with two providers, while
\* the files of its directory are on the disk, and D7 asks for what U7 stores
SiteTransfers ==
    {Req("U7", "UPLOAD", "s3", "basebackup", BasePath, <<>>, <<9>>, <<1>>, TRUE),
     Req("D7", "DOWNLOAD", "s3", "basebackup", BasePath, <<TargetPath>>, <<>>, <<>>, TRUE)}

Requests == GoodUploads \cup OtherUploads \cup Downloads \cup Controls

RetryRequests == GoodUploads \cup Controls

\* uploads with a callback queue, one that can be stored and one that fails at
\* every attempt, and QUIT
MultiRequests == {r \in Requests : r.id \in {"U3", "U5", "Q1"}}

\* transfers to each of the sites, every upload from memory
SiteRequests ==
    SiteTransfers \cup {r \in Requests : r.id \in {"U3", "U5", "D2"}}

\* an upload that is stored in the end, one that fails at every attempt, a
\* download and a request of an unknown type
StopRequests == {r \in Requests : r.id \in {"U1", "U5", "D2", "X1"}}

AllRequests == Requests \cup WildRequests

Ids == {r.id : r \in AllRequests \cup KeyRequests \cup SiteTransfers}

Workers == {1, 2}

\* a leaf of self.state[site][oper][filetype]
EMPTY == [data |-> 0, count |-> 0, time_taken |-> 0, failures |-> 0]

\* ---------------------------------------------------------------- state
VARIABLES
    todo,               \* requests the producers have not handed over yet
    transfer_queue,     \* the inbound queue, shared by the agents
    compression_queue,  \* the downstream queue
    callbacks,          \* callbacks[id]: what was put on request id's callback_queue
    fs,                 \* the paths of the files on the local disk
    objects,            \* the objects in the remote storage
    fail_left,          \* how many more calls the remote storage may fail
    pc,                 \* where each agent's run() is
    running,            \* self.running
    cur,                \* file_to_transfer of run()
    result,             \* result of run()
    state,              \* self.state
    site_transfers,     \* self.site_transfers
    built,              \* storages constructed per agent and site
    cleanup_raised,     \* the last handler call logged "Problem in deleting file"
    ahead               \* ahead[id]: the requests that were on the transfer queue
                        \* when request id was last put back on it and that no
                        \* agent has taken since (kept to state the order of
                        \* service; nothing the agents do reads it)

vars ==
    <<todo, transfer_queue, compression_queue, callbacks, fs, objects, fail_left,
      pc, running, cur, result, state, site_transfers, built, cleanup_raised,
      ahead>>

\* ------------------------------------------------------ backend registry
\* get_object_storage_transfer(key, value): the storage object, here its
\* provider and bucket; an unknown key raises InvalidConfigurationError
KnownStorage(entry) == entry.kind \in {"azure", "google", "s3"}

get_object_storage_transfer(entry) == [kind |-> entry.kind, bucket |-> entry.bucket]

\* build_storages, were the loop left at the first storage constructed
RECURSIVE build_storages_first(_, _, _)
build_storages_first(cfg, i, acc) ==
    IF i > Len(cfg) THEN acc
    ELSE IF ~KnownStorage(cfg[i]) THEN [acc EXCEPT !.raised = TRUE]
    ELSE [storage |-> <<get_object_storage_transfer(cfg[i])>>,
          raised |-> FALSE, built |-> acc.built + 1]

\* the loop over cfg.items(): each entry's storage is constructed and cached in
\* turn; a raise leaves what was cached before it
RECURSIVE build_storages(_, _, _)
build_storages(cfg, i, acc) ==
    IF i > Len(cfg) THEN acc
    ELSE IF ~KnownStorage(cfg[i]) THEN [acc EXCEPT !.raised = TRUE]
    ELSE build_storages(cfg, i + 1,
            [storage |-> <<get_object_storage_transfer(cfg[i])>>,
             raised |-> FALSE, built |-> acc.built + 1])

\* get_object_storage, were self.site_transfers not looked at
get_object_storage_uncached(transfers, site_name) ==
    IF site_name \notin DOMAIN Config
    THEN [storage |-> <<>>, raised |-> TRUE, transfers |-> transfers, built |-> 0,
          read |-> TRUE]
    ELSE LET b == build_storages(Config[site_name], 1,
                      [storage |-> <<>>, raised |-> FALSE, built |-> 0])
         IN  [storage |-> b.storage, raised |-> b.raised,
              transfers |-> IF Has(b.storage)
                            THEN [transfers EXCEPT ![site_name] = b.storage]
                            ELSE transfers,
              built |-> b.built, read |-> TRUE]

\* TransferAgent.get_object_storage: [storage, raised, transfers, built, read];
\* storage is <<>> for None, built counts the storages constructed by the call
\* and read tells whether the call looked at self.config
get_object_storage(transfers, site_name) ==
    IF Has(transfers[site_name])
    THEN [storage |-> transfers[site_name], raised |-> FALSE,
          transfers |-> transfers, built |-> 0, read |-> FALSE]
    ELSE IF site_name \notin DOMAIN Config
    THEN [storage |-> <<>>, raised |-> TRUE, transfers |-> transfers, built |-> 0,
          read |-> TRUE]
    ELSE LET b == build_storages(Config[site_name], 1,
                      [storage |-> <<>>, raised |-> FALSE, built |-> 0])
         IN  [storage |-> b.storage, raised |-> b.raised,
              transfers |-> IF Has(b.storage)
                            THEN [transfers EXCEPT ![site_name] = b.storage]
                            ELSE transfers,
              built |-> b.built, read |-> TRUE]

\* ------------------------------------------------------- remote storage
\* store_file_from_memory / store_file_from_disk of a storage object: the
\* outcomes [ok, objects, fail_left].  The call may fail while the storage has
\* failures left, a disk store fails when the file cannot be read, and a
\* successful store replaces the object under the key.
store_file(storage, key, file_to_transfer, objs, files, left) ==
    LET from_disk == ~Has(file_to_transfer.blob)
        bytes == IF from_disk THEN FileBytes(file_to_transfer.local_path)
                 ELSE file_to_transfer.blob
        stored == {o \in objs : ~(o.bucket = storage.bucket /\ o.key = key)}
                  \cup {[bucket |-> storage.bucket, key |-> key, blob |-> bytes,
                         metadata |-> file_to_transfer.metadata]}
    IN  {[ok |-> FALSE, objects |-> objs, fail_left |-> left - 1] : x \in {1} \cap 1..left}
        \cup
        (IF from_disk /\ file_to_transfer.local_path \notin files
         THEN {[ok |-> FALSE, objects |-> objs, fail_left |-> left]}
         ELSE {[ok |-> TRUE, objects |-> stored, fail_left |-> left]})

\* get_contents_to_string of a storage object: the outcomes
\* [ok, content, metadata, fail_left]; a key that is not there raises
\* FileNotFoundFromStorageError
get_contents_to_string(storage, key, objs, left) ==
    LET found == {o \in objs : o.bucket = storage.bucket /\ o.key = key}
    IN  {[ok |-> FALSE, content |-> <<>>, metadata |-> "", fail_left |-> left - 1] :
            x \in {1} \cap 1..left}
        \cup
        (IF found = {}
         THEN {[ok |-> FALSE, content |-> <<>>, metadata |-> "", fail_left |-> left]}
         ELSE {[ok |-> TRUE, content |-> o.blob, metadata |-> o.metadata,
                fail_left |-> left] : o \in found})

\* ----------------------------------------------------- local filesystem
Under(dir, path) ==
    /\ Len(path) > Len(dir) + 1
    /\ UpTo(path, Len(dir)) = dir
    /\ path[Len(dir) + 1] = "/"

\* cleanup, were the directory of local_path removed for every filetype
cleanup_whole_directory(file_to_transfer, files) ==
    LET tree == {p \in files : Under(dirname(file_to_transfer.local_path), p)}
    IN  {[fs |-> files, raised |-> TRUE], [fs |-> files \ tree, raised |-> FALSE]}

\* the removals after a store from disk (the inner try block): the outcomes
\* [fs, raised].  shutil.rmtree raises when the directory is not there and can
\* raise after having removed only some of it; os.unlink raises when the file
\* is not there or cannot be removed.  What is raised is caught and logged.
cleanup(file_to_transfer, files) ==
    LET local_path == file_to_transfer.local_path
        tree == {p \in files : Under(dirname(local_path), p)}
        metadata_path == MetadataPath(local_path)
    IN  IF file_to_transfer.filetype = "basebackup"
        THEN {[fs |-> files \ gone, raised |-> TRUE] : gone \in SUBSET tree}
             \cup {[fs |-> files \ tree, raised |-> FALSE] : x \in {1} \cap 1..Cardinality(tree)}
        ELSE {[fs |-> files, raised |-> TRUE]}
             \cup
             (IF local_path \notin files THEN {}
              ELSE IF metadata_path \in files
              THEN {[fs |-> files \ {local_path}, raised |-> TRUE],
                    [fs |-> files \ {local_path, metadata_path}, raised |-> FALSE]}
              ELSE {[fs |-> files \ {local_path}, raised |-> FALSE]})

\* ------------------------------------------------------------- handlers
\* What a handler call leaves: the result dict, the requests put on the
\* transfer queue, the messages put on the compression queue, the registry,
\* the remote storage, the local disk and the request dict after the call.
Outcome(res, put, sent, g, objs, files, left, req, raised) ==
    [result |-> res, put |-> put, sent |-> sent, transfers |-> g.transfers,
     built |-> g.built, objects |-> objs, fs |-> files, fail_left |-> left,
     req |-> req, cleanup_raised |-> raised]

\* the result dicts: call_callback is <<>> when the dict has no such key
Success == [success |-> TRUE, call_callback |-> <<>>]

\* the failure, were it returned with "call_callback": False
FailureNotCalledBack == [success |-> FALSE, call_callback |-> <<FALSE>>]

Failure == [success |-> FALSE, call_callback |-> <<>>]

\* upload_failed, were the result returned without "call_callback": False
upload_failed_calling_back(g, objs, files, left, file_to_transfer) ==
    Outcome([success |-> FALSE, call_callback |-> <<>>], <<file_to_transfer>>,
            <<>>, g, objs, files, left, file_to_transfer, FALSE)

\* upload_failed, were the request not put back on the transfer queue
upload_failed_dropping(g, objs, files, left, file_to_transfer) ==
    Outcome([success |-> FALSE, call_callback |-> <<FALSE>>], <<>>,
            <<>>, g, objs, files, left, file_to_transfer, FALSE)

\* the except branch of handle_upload: the request goes back on the
\* transfer queue and the caller is not called back
upload_failed(g, objs, files, left, file_to_transfer) ==
    Outcome([success |-> FALSE, call_callback |-> <<FALSE>>], <<file_to_transfer>>,
            <<>>, g, objs, files, left, file_to_transfer, FALSE)

\* handle_upload, were the removals not in a try block of their own: what
\* they raise reaches the outer except branch
handle_upload_cleanup_uncaught(transfers, objs, files, left, site, key, file_to_transfer) ==
    LET g == get_object_storage(transfers, site)
    IN  IF g.raised \/ ~Has(g.storage)
        THEN {upload_failed(g, objs, files, left, file_to_transfer)}
        ELSE UNION {
            IF ~s.ok
            THEN {upload_failed(g, s.objects, files, s.fail_left, file_to_transfer)}
            ELSE IF Has(file_to_transfer.blob)
            THEN {Outcome(Success, <<>>, <<>>, g, s.objects, files, s.fail_left,
                          file_to_transfer, FALSE)}
            ELSE {IF c.raised
                  THEN [upload_failed(g, s.objects, c.fs, s.fail_left, file_to_transfer)
                            EXCEPT !.cleanup_raised = TRUE]
                  ELSE Outcome(Success, <<>>, <<>>, g, s.objects, c.fs, s.fail_left,
                               file_to_transfer, FALSE)
                  : c \in cleanup(file_to_transfer, files)}
            : s \in store_file(g.storage[1], key, file_to_transfer, objs, files, left)}

\* handle_upload, were the removals done after a store from memory too
handle_upload_cleaning_always(transfers, objs, files, left, site, key, file_to_transfer) ==
    LET g == get_object_storage(transfers, site)
    IN  IF g.raised \/ ~Has(g.storage)
        THEN {upload_failed(g, objs, files, left, file_to_transfer)}
        ELSE UNION {
            IF ~s.ok
            THEN {upload_failed(g, s.objects, files, s.fail_left, file_to_transfer)}
            ELSE {Outcome(Success, <<>>, <<>>, g, s.objects, c.fs, s.fail_left,
                          file_to_transfer, c.raised) : c \in cleanup(file_to_transfer, files)}
            : s \in store_file(g.storage[1], key, file_to_transfer, objs, files, left)}

\* TransferAgent.handle_upload
handle_upload(transfers, objs, files, left, site, key, file_to_transfer) ==
    LET g == get_object_storage(transfers, site)
    IN  IF g.raised \/ ~Has(g.storage)
        THEN {upload_failed(g, objs, files, left, file_to_transfer)}
        ELSE UNION {
            IF ~s.ok
            THEN {upload_failed(g, s.objects, files, s.fail_left, file_to_transfer)}
            ELSE IF Has(file_to_transfer.blob)
            THEN {Outcome(Success, <<>>, <<>>, g, s.objects, files, s.fail_left,
                          file_to_transfer, FALSE)}
            ELSE {Outcome(Success, <<>>, <<>>, g, s.objects, c.fs, s.fail_left,
                          file_to_transfer, c.raised) : c \in cleanup(file_to_transfer, files)}
            : s \in store_file(g.storage[1], key, file_to_transfer, objs, files, left)}

\* the message handle_download puts on the compression queue
decompression(site, file_to_transfer, content, metadata) ==
    [blob |-> content, callback_queue |-> file_to_transfer.callback_queue[1],
     local_path |-> file_to_transfer.target_path[1], metadata |-> metadata,
     site |-> site, type |-> "DECOMPRESSION"]

\* TransferAgent.handle_download: a request dict without "callback_queue" (or
\* "target_path") raises KeyError while the message is built, after file_size
\* was set, and the except branch returns the failure
handle_download(transfers, objs, files, left, site, key, file_to_transfer) ==
    LET g == get_object_storage(transfers, site)
    IN  IF g.raised \/ ~Has(g.storage)
        THEN {Outcome(Failure, <<>>, <<>>, g, objs, files, left, file_to_transfer, FALSE)}
        ELSE {LET sized == [file_to_transfer EXCEPT !.file_size = <<Len(f.content)>>]
              IN  IF ~f.ok
                  THEN Outcome(Failure, <<>>, <<>>, g, objs, files, f.fail_left,
                               file_to_transfer, FALSE)
                  ELSE IF ~Has(file_to_transfer.callback_queue)
                          \/ ~Has(file_to_transfer.target_path)
                  THEN Outcome(Failure, <<>>, <<>>, g, objs, files, f.fail_left, sized, FALSE)
                  ELSE Outcome([success |-> TRUE, call_callback |-> <<FALSE>>], <<>>,
                               <<decompression(site, file_to_transfer, f.content, f.metadata)>>,
                               g, objs, files, f.fail_left, sized, FALSE)
              : f \in get_contents_to_string(g.storage[1], key, objs, left)}

\* ----------------------------------------------------------- statistics
SiteDefaults ==
    [upload |-> [basebackup |-> EMPTY, xlog |-> EMPTY, timeline |-> EMPTY],
     download |-> [basebackup |-> EMPTY, xlog |-> EMPTY, timeline |-> EMPTY]]

\* TransferAgent.set_state_defaults_for_site
set_state_defaults_for_site(st, site) ==
    IF Has(st[site]) THEN st ELSE [st EXCEPT ![site] = <<SiteDefaults>>]

\* increment, were a failure counted as a transfer too
increment_counting_failures(st, site, oper, filetype, res, oper_size, elapsed) ==
    [st EXCEPT ![site][1][oper][filetype] =
        [@ EXCEPT !.count = @ + 1, !.data = @ + oper_size,
                  !.time_taken = @ + elapsed,
                  !.failures = IF res.success THEN @ ELSE @ + 1]]

\* the statistics counters of run(), given that the leaf is there
increment(st, site, oper, filetype, res, oper_size, elapsed) ==
    IF res.success
    THEN [st EXCEPT ![site][1][oper][filetype] =
            [@ EXCEPT !.count = @ + 1, !.data = @ + oper_size,
                      !.time_taken = @ + elapsed]]
    ELSE [st EXCEPT ![site][1][oper][filetype] = [@ EXCEPT !.failures = @ + 1]]

\* push_result, were the result's call_callback not looked at
push_result_whatever_the_flag(cbs, res, file_to_transfer) ==
    IF Has(file_to_transfer.callback_queue)
    THEN [cbs EXCEPT ![file_to_transfer.callback_queue[1]] = Append(@, res)]
    ELSE cbs

\* the push to the callback queue of run()
push_result(cbs, res, file_to_transfer) ==
    IF Get(res.call_callback, TRUE) /\ Has(file_to_transfer.callback_queue)
    THEN [cbs EXCEPT ![file_to_transfer.callback_queue[1]] = Append(@, res)]
    ELSE cbs

\* a leaf as the statistics show it: a site not seen yet counts nothing
Leaf(st, site, oper, filetype) ==
    IF Has(st[site]) /\ filetype \in Filetypes /\ oper \in {"upload", "download"}
    THEN st[site][1][oper][filetype]
    ELSE EMPTY

\* ------------------------------------------------------------- the loop
\* lower, were a type that is none of the known ones taken for an upload
lower_unknown_as_upload(type) ==
    CASE type = "DOWNLOAD" -> "download"
      [] type = "QUIT" -> "quit"
      [] OTHER -> "upload"

\* file_to_transfer["type"].lower()
lower(type) ==
    CASE type = "UPLOAD" -> "upload"
      [] type = "DOWNLOAD" -> "download"
      [] type = "QUIT" -> "quit"
      [] OTHER -> "list"

\* getattr(self, "handle_" + oper, None) is not None
HasHandler(oper) == oper \in {"upload", "download"}

\* the failures a leaf may count before the model stops taking its requests
MaxRetries == MaxFail + MaxSubmit

\* Queue.put, were the queue last in, first out
queue_put_first(queue, items) == items \o queue

\* Queue.put of each of items in turn: at the back of the queue
queue_put(queue, items) == queue \o items

\* the agents after construction, todos being the sets of requests the
\* producers may have to hand over
InitFrom(todos, agents, failures) ==
    /\ todo \in todos
    /\ transfer_queue = <<>>
    /\ compression_queue = <<>>
    /\ callbacks = [i \in Ids |-> <<>>]
    /\ fs = InitialFiles
    /\ objects = InitialObjects
    /\ fail_left = failures
    /\ pc = [w \in Workers |-> IF w \in agents THEN "loop" ELSE "new"]
    /\ running = [w \in Workers |-> TRUE]
    /\ cur = [w \in Workers |-> <<>>]
    /\ result = [w \in Workers |-> <<>>]
    /\ state = [w \in Workers |-> [s \in Sites |-> <<>>]]
    /\ site_transfers = [w \in Workers |-> [s \in Sites |-> <<>>]]
    /\ built = [w \in Workers |-> [s \in Sites |-> 0]]
    /\ cleanup_raised = [w \in Workers |-> FALSE]
    /\ ahead = [i \in Ids |-> {}]

InitOf(universe, agents, failures) ==
    InitFrom({S \in SUBSET universe : Cardinality(S) <= MaxSubmit}, agents, failures)

\* a producer puts a request on the transfer queue
Submit ==
    \E r \in todo :
        /\ todo' = todo \ {r}
        /\ transfer_queue' = queue_put(transfer_queue, <<r>>)
        /\ UNCHANGED <<compression_queue, callbacks, fs, objects, fail_left, pc,
                       running, cur, result, state, site_transfers, built,
                       cleanup_raised, ahead>>

\* run(): the while condition finds self.running true and the agent goes to
\* wait in transfer_queue.get(timeout=1.0)
Enter(w) ==
    /\ pc[w] = "loop"
    /\ running[w]
    /\ pc' = [pc EXCEPT ![w] = "getting"]
    /\ UNCHANGED <<todo, transfer_queue, compression_queue, callbacks, fs, objects,
                   fail_left, running, cur, result, state, site_transfers, built,
                   cleanup_raised, ahead>>

\* the request at the head of the queue has failed as often as the model
\* follows it: it is handed to agent w no more
Capped(w) ==
    /\ transfer_queue # <<>>
    /\ Leaf(state[w], Head(transfer_queue).site, lower(Head(transfer_queue).type),
            Head(transfer_queue).filetype).failures >= MaxRetries

\* Take, were QUIT a type like any other without a handler
Take_without_break(w) ==
    /\ pc[w] = "getting"
    /\ transfer_queue # <<>>
    /\ ~Capped(w)
    /\ LET file_to_transfer == Head(transfer_queue)
           oper == lower(file_to_transfer.type)
       IN  /\ transfer_queue' = Tail(transfer_queue)
           /\ cur' = [cur EXCEPT ![w] = <<file_to_transfer>>]
           /\ pc' = [pc EXCEPT ![w] = IF HasHandler(oper) THEN "handling" ELSE "loop"]
           /\ ahead' = [i \in Ids |-> ahead[i] \ {file_to_transfer.id}]
    /\ UNCHANGED <<todo, compression_queue, callbacks, fs, objects, fail_left,
                   running, result, state, site_transfers, built, cleanup_raised>>

\* run(): transfer_queue.get() returns a request; QUIT breaks the loop, a type
\* without a handler is logged and dropped, any other goes to its handler
Take(w) ==
    /\ pc[w] = "getting"
    /\ transfer_queue # <<>>
    /\ ~Capped(w)
    /\ LET file_to_transfer == Head(transfer_queue)
           oper == lower(file_to_transfer.type)
       IN  /\ transfer_queue' = Tail(transfer_queue)
           /\ cur' = [cur EXCEPT ![w] = <<file_to_transfer>>]
           /\ pc' = [pc EXCEPT ![w] =
                        IF file_to_transfer.type = "QUIT" THEN "stopped"
                        ELSE IF HasHandler(oper) THEN "handling"
                        ELSE "loop"]
           /\ ahead' = [i \in Ids |-> ahead[i] \ {file_to_transfer.id}]
    /\ UNCHANGED <<todo, compression_queue, callbacks, fs, objects, fail_left,
                   running, result, state, site_transfers, built, cleanup_raised>>

\* Timeout, were the get called without a timeout: the agent waits on
Timeout_blocking(w) ==
    /\ pc[w] = "getting"
    /\ FALSE
    /\ UNCHANGED vars

\* run(): transfer_queue.get(timeout=1.0) raises Empty and the loop goes on
Timeout(w) ==
    /\ pc[w] = "getting"
    /\ transfer_queue = <<>> \/ Capped(w)
    /\ pc' = [pc EXCEPT ![w] = "loop"]
    /\ UNCHANGED <<todo, transfer_queue, compression_queue, callbacks, fs, objects,
                   fail_left, running, cur, result, state, site_transfers, built,
                   cleanup_raised, ahead>>

\* run(): the while condition finds self.running false
Exit(w) ==
    /\ pc[w] = "loop"
    /\ ~running[w]
    /\ pc' = [pc EXCEPT ![w] = "stopped"]
    /\ UNCHANGED <<todo, transfer_queue, compression_queue, callbacks, fs, objects,
                   fail_left, running, cur, result, state, site_transfers, built,
                   cleanup_raised, ahead>>

\* run(): the handler call, the statistics and the callback of one request.
\* A filetype the statistics have no leaf for raises KeyError at the counters,
\* after the handler has acted, and the exception ends run().  The put of a
\* failed upload is the last the handler does with the request, and what
\* follows the handler call writes the agent's own statistics and, for a
\* request that is not put back, its callback queue: no other agent reads or
\* writes any of it, so the iteration is taken as one step.
Handle(w) ==
    /\ pc[w] = "handling"
    /\ LET file_to_transfer == cur[w][1]
           key == form_key_path(file_to_transfer)
           oper == lower(file_to_transfer.type)
           site == file_to_transfer.site
           filetype == file_to_transfer.filetype
       IN  \E elapsed \in 0..MaxElapsed :
           \E o \in (IF oper = "upload"
                     THEN handle_upload(site_transfers[w], objects, fs, fail_left,
                                        site, key, file_to_transfer)
                     ELSE handle_download(site_transfers[w], objects, fs, fail_left,
                                          site, key, file_to_transfer)) :
               LET defaults == set_state_defaults_for_site(state[w], site)
                   oper_size == Get(o.req.file_size, 0)
                   known == filetype \in Filetypes
               IN  /\ transfer_queue' = queue_put(transfer_queue, o.put)
                   /\ ahead' = IF o.put = <<>> THEN ahead
                               ELSE [ahead EXCEPT ![file_to_transfer.id] =
                                        {transfer_queue[k].id : k \in 1..Len(transfer_queue)}]
                   /\ compression_queue' = queue_put(compression_queue, o.sent)
                   /\ site_transfers' = [site_transfers EXCEPT ![w] = o.transfers]
                   /\ built' = [built EXCEPT ![w][site] = @ + o.built]
                   /\ objects' = o.objects
                   /\ fs' = o.fs
                   /\ cleanup_raised' = [cleanup_raised EXCEPT ![w] = o.cleanup_raised]
                   /\ fail_left' = o.fail_left
                   /\ cur' = [cur EXCEPT ![w] = <<o.req>>]
                   /\ result' = [result EXCEPT ![w] = <<o.result>>]
                   /\ state' = [state EXCEPT ![w] =
                        IF known
                        THEN increment(defaults, site, oper, filetype, o.result,
                                       oper_size, elapsed)
                        ELSE defaults]
                   /\ callbacks' = IF known
                                   THEN push_result(callbacks, o.result, o.req)
                                   ELSE callbacks
                   /\ pc' = [pc EXCEPT ![w] = IF known THEN "loop" ELSE "crashed"]
    /\ UNCHANGED <<todo, running>>

\* another thread sets self.running = False
Stop(w) ==
    /\ pc[w] \in {"loop", "getting", "handling"}
    /\ running[w]
    /\ running' = [running EXCEPT ![w] = FALSE]
    /\ UNCHANGED <<todo, transfer_queue, compression_queue, callbacks, fs, objects,
                   fail_left, pc, cur, result, state, site_transfers, built,
                   cleanup_raised, ahead>>

Next ==
    \/ Submit
    \/ \E w \in Workers : Enter(w)
    \/ \E w \in Workers : Take(w)
    \/ \E w \in Workers : Timeout(w)
    \/ \E w \in Workers : Exit(w)
    \/ \E w \in Workers : Handle(w)
    \/ \E w \in Workers : Stop(w)

\* one agent, requests of the documented types
Init == InitOf(Requests, {1}, MaxFail)

Spec == Init /\ [][Next]_vars

\* one agent, requests whose filetype may be unknown to the statistics
InitWild == InitOf(AllRequests, {1}, MaxFail)

SpecWild == InitWild /\ [][Next]_vars

\* one agent whose storage can be resolved, each source named by one request;
\* the thread is scheduled as long as it has a step to take
InitRetry == InitOf(RetryRequests, {1}, MaxFail)

\* WF_vars(Handle(w)) written out: Handle(w) is enabled exactly when
\* pc[w] = "handling" (a handler call always returns an outcome) and every
\* Handle(w) step leaves pc[w] = "handling", so weak fairness of Handle(w)
\* says that the agent is not in a handler call for ever
HandleFair(w) == []<>(pc[w] # "handling")

\* the thread of a started agent is scheduled: at the top of the loop it goes
\* to wait for a request or leaves the loop, the wait ends with a request or
\* with the timeout, and in the handler it returns
Fairness(agents) ==
    \A w \in agents :
        /\ WF_vars(Enter(w) \/ Exit(w) \/ Take(w) \/ Timeout(w))
        /\ HandleFair(w)

SpecRetry == InitRetry /\ [][Next]_vars /\ Fairness({1})

\* one scheduled agent, with an upload that is put back at every attempt
InitStop == InitOf(StopRequests, {1}, MaxFail)

SpecStop == InitStop /\ [][Next]_vars /\ Fairness({1})

\* one agent, transfers to the sites with one provider, with two and with an
\* unknown one
InitSites == InitOf(SiteRequests, {1}, MaxFail)

SpecSites == InitSites /\ [][Next]_vars

\* two agents taking from the one transfer queue
InitMulti == InitOf(MultiRequests, Workers, MaxFail)

SpecMulti == InitMulti /\ [][Next]_vars

\* one agent and one upload, of any filetype and any local_path
InitKey == InitFrom({{r} : r \in KeyRequests}, {1}, MaxFail)

SpecKey == InitKey /\ [][Next]_vars

\* --------------------------------------------------------------- claims
\* the step in which agent w's handler call, statistics and callback are done
Handled(w) == pc[w] = "handling" /\ pc'[w] = "loop"

Opers == {"upload", "download"}

LeafNames == Workers \X Sites \X Opers \X Filetypes

LeafAt(st, n) == Leaf(st[n[1]], n[2], n[3], n[4])

\* the leaf the request in agent w's hands is counted in
LeafOf(w) ==
    <<w, cur[w][1].site, lower(cur[w][1].type), cur[w][1].filetype>>

\* C1: after the loop iteration of an upload or download, a successful result
\* has raised the count of the request's leaf by 1, its data by the request's
\* file_size as the dict holds it after the handler (0 when it has none), a
\* non-negative amount, has not lowered its time_taken and has left its
\* failures; a failed result has raised its failures by 1 and left the rest;
\* every other leaf of every site is as it was.
C1_Accounting ==
    [][\A w \in Workers : Handled(w) =>
        LET before == LeafAt(state, LeafOf(w))
            after == LeafAt(state', LeafOf(w))
            oper_size == Get(cur'[w][1].file_size, 0)
        IN  /\ result'[w][1].success =>
                /\ after.count = before.count + 1
                /\ after.data = before.data + oper_size
                /\ oper_size >= 0
                /\ after.time_taken >= before.time_taken
                /\ after.failures = before.failures
            /\ ~result'[w][1].success =>
                after = [before EXCEPT !.failures = @ + 1]
            /\ \A n \in LeafNames \ {LeafOf(w)} : LeafAt(state', n) = LeafAt(state, n)
      ]_vars

\* C1 witness: a download counted with the size of what it fetched, after a
\* failure counted on another leaf
C1_Witness ==
    /\ pc[1] = "loop"
    /\ Has(result[1]) /\ result[1][1].success
    /\ cur[1][1].id = "D2"
    /\ LeafAt(state, <<1, "s1", "download", "xlog">>) =
          [data |-> 2, count |-> 1, time_taken |-> 1, failures |-> 0]
    /\ LeafAt(state, <<1, "s2", "upload", "xlog">>).failures = 1

\* C2: an upload that fails (the storage cannot be resolved, or the store call
\* raises) puts the one request, unchanged, at the back of the transfer queue,
\* returns success False with call_callback False, puts nothing on any callback
\* queue and removes no local file.
C2_FailedUploadRequeued ==
    [][\A w \in Workers :
        (Handled(w) /\ cur[w][1].type = "UPLOAD" /\ ~result'[w][1].success) =>
            /\ transfer_queue' = Append(transfer_queue, cur[w][1])
            /\ cur'[w] = cur[w]
            /\ result'[w][1] = [success |-> FALSE, call_callback |-> <<FALSE>>]
            /\ callbacks' = callbacks
            /\ fs' = fs
      ]_vars

\* C2 witness: a store call has failed for U1 and U1 is back on the queue, and
\* an upload to the site without a usable storage has failed too
C2_Witness ==
    /\ pc[1] = "loop"
    /\ Has(result[1]) /\ ~result[1][1].success
    /\ cur[1][1] \in GoodUploads /\ cur[1][1].id = "U1"
    /\ transfer_queue # <<>> /\ transfer_queue[Len(transfer_queue)] = cur[1][1]
    /\ fail_left < MaxFail
    /\ LeafAt(state, <<1, "s2", "upload", "xlog">>).failures >= 1

\* request r, as it was handed over, waits on queue q or is in the hands of
\* an agent's handler (p and c: the agents' pc and cur)
QueuedIn(q, r) == \E k \in 1..Len(q) : q[k] = r

InSystemAt(q, p, c, r) ==
    QueuedIn(q, r) \/ \E w \in Workers : p[w] = "handling" /\ c[w] = <<r>>

InSystem(r) == InSystemAt(transfer_queue, pc, cur, r)

\* the remote storage objs holds the upload's payload, or its file's bytes,
\* under the request's key with the request's metadata
StoredIn(objs, r) ==
    \E o \in objs :
        /\ o.key = form_key_path(r)
        /\ o.blob = (IF Has(r.blob) THEN r.blob ELSE FileBytes(r.local_path))
        /\ o.metadata = r.metadata

Stored(r) == StoredIn(objects, r)

\* C3: an upload handed to a running agent whose storage fails the store call
\* up to MaxFail times is stored in the end, unless the agent is stopped (QUIT,
\* or self.running set to False) first; until it is stored the unchanged
\* request stays on the transfer queue or in the handler.
C3_RetriedUntilStored ==
    /\ \A r \in GoodUploads : InSystem(r) ~> (Stored(r) \/ pc[1] = "stopped")
    /\ [][\A r \in GoodUploads : InSystem(r) =>
            (InSystemAt(transfer_queue', pc', cur', r) \/ StoredIn(objects', r))]_vars

\* C3 witness: the store call has failed MaxFail times and U1 is stored
C3_Witness ==
    /\ fail_left = 0
    /\ LeafAt(state, <<1, "s1", "upload", "xlog">>).failures = MaxFail
    /\ LeafAt(state, <<1, "s1", "upload", "xlog">>).count = 1
    /\ Stored(CHOOSE r \in GoodUploads : r.id = "U1")
    /\ ~InSystem(CHOOSE r \in GoodUploads : r.id = "U1")

\* C4: no callback queue of a request ever holds more than one result.
C4_AtMostOneResult == \A i \in Ids : Len(callbacks[i]) <= 1

\* C4 witness: U1's store failed, U1 was retried and its one result is there
C4_Witness ==
    /\ LeafAt(state, <<1, "s1", "upload", "xlog">>).failures >= 1
    /\ callbacks["U1"] = <<[success |-> TRUE, call_callback |-> <<>>]>>

\* C5 as claimed: an upload with a callback queue gets no result while its
\* attempts fail and one result, success True, when its store succeeds; when
\* that was the first operation counted on its leaf (nothing failed before),
\* the one callback is there, the leaf's count is 1 and the file at local_path,
\* when the upload was read from it, is gone.
C5_Original ==
    [][\A w \in Workers :
        (Handled(w) /\ cur[w][1].type = "UPLOAD" /\ Has(cur[w][1].callback_queue)) =>
            LET id == cur[w][1].id
                before == LeafAt(state, LeafOf(w))
                after == LeafAt(state', LeafOf(w))
                ok == [success |-> TRUE, call_callback |-> <<>>]
            IN  /\ ~result'[w][1].success => callbacks' = callbacks
                /\ result'[w][1].success =>
                    /\ callbacks' = [callbacks EXCEPT ![id] = Append(@, ok)]
                    /\ callbacks'[id] = <<ok>>
                /\ (result'[w][1].success /\ before = EMPTY) =>
                    /\ after.count = 1
                    /\ ~Has(cur[w][1].blob) => cur[w][1].local_path \notin fs'
      ]_vars

\* C5 as amended: the same, the file at local_path being gone when the upload
\* was read from it and the removals raised nothing.
C5_UploadCallback ==
    [][\A w \in Workers :
        (Handled(w) /\ cur[w][1].type = "UPLOAD" /\ Has(cur[w][1].callback_queue)) =>
            LET id == cur[w][1].id
                before == LeafAt(state, LeafOf(w))
                after == LeafAt(state', LeafOf(w))
                ok == [success |-> TRUE, call_callback |-> <<>>]
            IN  /\ ~result'[w][1].success => callbacks' = callbacks
                /\ result'[w][1].success =>
                    /\ callbacks' = [callbacks EXCEPT ![id] = Append(@, ok)]
                    /\ callbacks'[id] = <<ok>>
                /\ (result'[w][1].success /\ before = EMPTY) =>
                    /\ after.count = 1
                    /\ (~Has(cur[w][1].blob) /\ ~cleanup_raised'[w]) =>
                            cur[w][1].local_path \notin fs'
      ]_vars

\* C5 witness: U1 was stored at its first attempt, its callback is there, its
\* leaf counts 1 and its file is gone
C5_Witness ==
    /\ callbacks["U1"] = <<[success |-> TRUE, call_callback |-> <<>>]>>
    /\ LeafAt(state, <<1, "s1", "upload", "xlog">>) \in
          {[data |-> 3, count |-> 1, time_taken |-> t, failures |-> 0] : t \in 0..MaxElapsed}
    /\ ~cleanup_raised[1]
    /\ XlogPath \notin fs

\* C6: a download of a key the storage does not hold returns the failure,
\* puts nothing on the compression queue nor on the transfer queue, raises the
\* failures of its leaf by 1 and leaves the leaf's other counters, and the
\* failure is put on the request's callback queue when it has one.
C6_DownloadNotFound ==
    [][\A w \in Workers :
        (/\ Handled(w)
         /\ cur[w][1].type = "DOWNLOAD"
         /\ \A o \in objects : o.key # form_key_path(cur[w][1])) =>
            LET id == cur[w][1].id
                before == LeafAt(state, LeafOf(w))
                after == LeafAt(state', LeafOf(w))
                failed == [success |-> FALSE, call_callback |-> <<>>]
            IN  /\ result'[w] = <<failed>>
                /\ compression_queue' = compression_queue
                /\ transfer_queue' = transfer_queue
                /\ after = [before EXCEPT !.failures = @ + 1]
                /\ callbacks' = IF Has(cur[w][1].callback_queue)
                                THEN [callbacks EXCEPT ![id] = Append(@, failed)]
                                ELSE callbacks
      ]_vars

\* C6 witness: D1 asked for a key that was not there while the storage had
\* not failed a call: the failure is on its callback queue
C6_Witness ==
    /\ callbacks["D1"] = <<[success |-> FALSE, call_callback |-> <<>>]>>
    /\ fail_left = MaxFail
    /\ \A o \in objects : o.key # <<"s1", "/", "xlog", "/", "a">>
    /\ compression_queue = <<>>
    /\ transfer_queue = <<>>
    /\ LeafAt(state, <<1, "s1", "download", "xlog">>) = [EMPTY EXCEPT !.failures = 1]

\* C7 as claimed: a download whose fetch succeeds (the key is there and the
\* storage does not fail the call), with or without a callback queue, puts one
\* DECOMPRESSION message on the compression queue, with the object's bytes and
\* metadata, target_path as its local_path and the site, returns success True
\* with call_callback False, and nothing is put on a callback queue.
C7_DownloadForwarded ==
    [][\A w \in Workers :
        (/\ Handled(w)
         /\ cur[w][1].type = "DOWNLOAD"
         /\ fail_left' = fail_left
         /\ \E o \in objects : o.key = form_key_path(cur[w][1])) =>
            /\ result'[w] = <<[success |-> TRUE, call_callback |-> <<FALSE>>]>>
            /\ callbacks' = callbacks
            /\ Len(compression_queue') = Len(compression_queue) + 1
            /\ SubSeq(compression_queue', 1, Len(compression_queue)) = compression_queue
            /\ \E o \in objects :
                LET sent == compression_queue'[Len(compression_queue')]
                IN  /\ o.key = form_key_path(cur[w][1])
                    /\ sent.type = "DECOMPRESSION"
                    /\ sent.blob = o.blob
                    /\ sent.metadata = o.metadata
                    /\ sent.local_path = cur[w][1].target_path[1]
                    /\ sent.site = cur[w][1].site
      ]_vars

\* C8 as claimed: an agent leaves the loop only as "stopped", and only when
\* self.running is False or the request at the head of the queue is QUIT;
\* whatever else it takes, it is back at the top of the loop afterwards.
C8_OnlyQuitOrStopEnds ==
    [][\A w \in Workers :
        (/\ pc[w] \in {"loop", "getting", "handling"}
         /\ pc'[w] \notin {"loop", "getting", "handling"}) =>
            /\ pc'[w] = "stopped"
            /\ \/ ~running[w]
               \/ (pc[w] = "getting" /\ transfer_queue # <<>>
                   /\ Head(transfer_queue).type = "QUIT")
      ]_vars

\* a successful upload from disk of a file that is no basebackup
DiskUploaded(w) ==
    /\ Handled(w)
    /\ cur[w][1].type = "UPLOAD"
    /\ ~Has(cur[w][1].blob)
    /\ cur[w][1].filetype # "basebackup"
    /\ result'[w][1].success

\* C9 as claimed: after a successful upload from disk of a file that is no
\* basebackup, local_path and local_path + ".metadata" are gone and every
\* other path is as it was.
C9_Original ==
    [][\A w \in Workers : DiskUploaded(w) =>
        fs' = fs \ {cur[w][1].local_path, MetadataPath(cur[w][1].local_path)}
      ]_vars

\* C9 as amended: every other path is as it was and nothing is created; the
\* sidecar goes only after the file; and both are gone when the removals
\* raised nothing.
C9_DiskUploadCleanup ==
    [][\A w \in Workers : DiskUploaded(w) =>
        LET local_path == cur[w][1].local_path
            metadata_path == MetadataPath(cur[w][1].local_path)
        IN  /\ fs' \subseteq fs
            /\ fs \ fs' \subseteq {local_path, metadata_path}
            /\ (metadata_path \in fs /\ metadata_path \notin fs') => local_path \notin fs'
            /\ ~cleanup_raised'[w] => fs' = fs \ {local_path, metadata_path}
      ]_vars

\* C9 witness: U1 was uploaded from disk, its file and its sidecar are gone
\* and the other files are there
C9_Witness ==
    /\ pc[1] = "loop" /\ Has(result[1]) /\ result[1][1].success
    /\ cur[1][1].id = "U1"
    /\ ~cleanup_raised[1]
    /\ fs = InitialFiles \ {XlogPath, MetadataPath(XlogPath)}

\* C10: when the store from disk has succeeded and a removal raises, the
\* result is success True, the request is not put back on the transfer queue,
\* the count of its leaf is raised and its failures are not, and the agent is
\* back at the top of its loop with self.running as it was.
C10_CleanupFailureKeepsSuccess ==
    [][\A w \in Workers :
        (pc[w] = "handling" /\ pc'[w] # "handling" /\ cleanup_raised'[w]) =>
            LET before == LeafAt(state, LeafOf(w))
                after == LeafAt(state', LeafOf(w))
            IN  /\ result'[w] = <<[success |-> TRUE, call_callback |-> <<>>]>>
                /\ transfer_queue' = transfer_queue
                /\ after.count = before.count + 1
                /\ after.failures = before.failures
                /\ pc'[w] = "loop"
                /\ running' = running
      ]_vars

\* C10 witness: the basebackup was stored, only part of its directory could
\* be removed, and the upload counts as a success
C10_Witness ==
    /\ pc[1] = "loop" /\ cleanup_raised[1]
    /\ cur[1][1].id = "U4"
    /\ BasePath \notin fs /\ BaseOther \in fs
    /\ result[1] = <<[success |-> TRUE, call_callback |-> <<>>]>>
    /\ LeafAt(state, <<1, "s1", "upload", "basebackup">>).count = 1
    /\ transfer_queue = <<>>

\* C11 as claimed: an upload with a callback queue that fails because its
\* source file is not there (the storage is resolved and fails no call) has
\* success False put on its callback queue in the iteration in which it failed.
C11_NotFoundUploadPublished ==
    [][\A w \in Workers :
        (/\ Handled(w)
         /\ cur[w][1].type = "UPLOAD"
         /\ Has(cur[w][1].callback_queue)
         /\ ~Has(cur[w][1].blob)
         /\ cur[w][1].local_path \notin fs
         /\ ~get_object_storage(site_transfers[w], cur[w][1].site).raised
         /\ fail_left' = fail_left) =>
            /\ ~result'[w][1].success
            /\ callbacks'[cur[w][1].id] =
                  Append(callbacks[cur[w][1].id],
                         [success |-> FALSE, call_callback |-> <<>>])
      ]_vars

NoSlash(s) == \A i \in 1..Len(s) : s[i] # "/"

\* c is the name of the directory the last component of path p lies in: p is
\* c, one or more separators and a last component, c beginning p or following
\* a separator; c is empty when no directory is named before a separator
IsParentName(c, p) ==
    IF \E i, j \in 1..Len(p) : i < j /\ p[i] # "/" /\ p[j] = "/"
    THEN \E k, m, n \in 1..Len(p) :
            /\ k <= m /\ m < n
            /\ c = SubSeq(p, k, m) /\ NoSlash(c)
            /\ k = 1 \/ p[k - 1] = "/"
            /\ \A i \in (m + 1)..n : p[i] = "/"
            /\ NoSlash(SubSeq(p, n + 1, Len(p)))
    ELSE c = <<>>

\* c is the last component of path p without its extension: the component is
\* c and an extension, which is a dot and what follows the component's last
\* dot, and is there when a dot of the component follows a character of it
\* that is no dot
IsStem(c, p) ==
    \E k \in 1..(Len(p) + 1), n \in 0..Len(p) :
        LET base == SubSeq(p, k, Len(p))
            ext == SubSeq(base, n + 1, Len(base))
        IN  /\ NoSlash(base)
            /\ k = 1 \/ p[k - 1] = "/"
            /\ n <= Len(base)
            /\ c = SubSeq(base, 1, n)
            /\ ext = <<>> \/ (ext[1] = "." /\ \A i \in 2..Len(ext) : ext[i] # ".")
            /\ ext # <<>> <=>
                 \E i, j \in 1..Len(base) : i < j /\ base[i] # "." /\ base[j] = "."

\* the paths of the other files, of up to MaxName characters, in the directory
\* of path p
Siblings(p) ==
    LET names == UNION {[1..n -> KeyChars \ {"/"}] : n \in 1..MaxName}
    IN  IF NoSlash(p) THEN names
        ELSE {SubSeq(p, 1, RFind1(p, "/")) \o g : g \in names}

\* C12: the key of the request in an agent's hands is site, "/", filetype, "/"
\* and a component; for a basebackup the component is the name of the
\* directory of local_path and every other path in that directory gives the
\* same key; for any other filetype it is the last component of local_path
\* without its final extension; and whatever the agent has stored for the
\* request, at its first attempt or at a later one, is under that one key.
C12_KeyPath ==
    \A w \in Workers : pc[w] = "handling" =>
        LET r == cur[w][1]
            k == form_key_path(r)
            c == SubSeq(k, 5, Len(k))
        IN  /\ k = <<r.site, "/", r.filetype, "/">> \o c
            /\ r.filetype = "basebackup" =>
                /\ IsParentName(c, r.local_path)
                /\ \A q \in Siblings(r.local_path) :
                      form_key_path([r EXCEPT !.local_path = q]) = k
            /\ r.filetype # "basebackup" => IsStem(c, r.local_path)
            /\ \A o \in objects \ InitialObjects : o.key = k

\* C12 witness: the xlog file /a.a is stored under s1/xlog/a, the key of its
\* first attempt, which failed, and of its second
C12_Witness ==
    /\ pc[1] = "loop"
    /\ cur[1] = <<Req("K1", "UPLOAD", "s1", "xlog", <<"/", "a", ".", "a">>,
                      <<>>, <<1>>, <<>>, FALSE)>>
    /\ LeafAt(state, <<1, "s1", "upload", "xlog">>).failures = 1
    /\ \E o \in objects : o.key = <<"s1", "/", "xlog", "/", "a">> /\ o.blob = <<1>>

\* C13: with one agent, a request that was on the transfer queue when a
\* failed upload was put back on it, and that has not been taken since, is
\* before that upload on the queue; so when the agent has the upload in its
\* hands again, every such request has been taken.
C13_RequeuedBehindPending ==
    /\ \A k \in 1..Len(transfer_queue) :
          ahead[transfer_queue[k].id] \subseteq {transfer_queue[j].id : j \in 1..(k - 1)}
    /\ \A w \in Workers : pc[w] = "handling" => ahead[cur[w][1].id] = {}

\* C13 witness: U1 failed once and is the only request on the queue while the
\* agent handles the download D2: D2 was on the queue when U1 was put back
\* (put after it, it would follow U1) and was taken before U1's next attempt
C13_Witness ==
    /\ pc[1] = "handling" /\ cur[1][1].id = "D2"
    /\ Len(transfer_queue) = 1 /\ transfer_queue[1].id = "U1"
    /\ todo = {}
    /\ LeafAt(state, <<1, "s1", "upload", "xlog">>).failures = 1
    /\ ahead["U1"] = {}

\* C14: an agent that gets QUIT from the transfer queue is stopped in that
\* step, which takes QUIT off the queue and changes no statistics, no callback
\* queue, nothing of the compression queue, of the storage or of the disk; and
\* a stopped agent stays stopped: with one agent, whatever was on the transfer
\* queue stays on it, in its order, and nothing else changes but by a producer
\* (or by setting the flag of the stopped agent).
C14_QuitStops ==
    [][\A w \in {1} :
        /\ (/\ pc[w] = "getting" /\ pc'[w] # "getting"
            /\ transfer_queue # <<>> /\ Head(transfer_queue).type = "QUIT") =>
                /\ pc'[w] = "stopped"
                /\ transfer_queue' = Tail(transfer_queue)
                /\ UNCHANGED <<state, callbacks, compression_queue, objects, fs,
                               result, site_transfers, built>>
        /\ pc[w] = "stopped" =>
                /\ pc'[w] = "stopped"
                /\ Len(transfer_queue') >= Len(transfer_queue)
                /\ SubSeq(transfer_queue', 1, Len(transfer_queue)) = transfer_queue
                /\ UNCHANGED <<state, callbacks, compression_queue, objects, fs,
                               result, cur, site_transfers, built>>
      ]_vars

\* C14 witness: QUIT was taken before the upload U1, which is still on the
\* queue; nothing was counted, stored or removed
C14_Witness ==
    /\ pc[1] = "stopped" /\ running[1]
    /\ cur[1][1].type = "QUIT"
    /\ Len(transfer_queue) = 1 /\ transfer_queue[1].id = "U1"
    /\ \A n \in LeafNames : LeafAt(state, n) = EMPTY
    /\ objects = InitialObjects /\ fs = InitialFiles
    /\ \A i \in Ids : callbacks[i] = <<>>

\* C15: once self.running is False the scheduled agent is stopped in the end,
\* whether the transfer queue is empty or holds an upload that fails at every
\* attempt; the agent leaves the loop from its top or from the get, never from
\* a handler call: a request in the handler when the flag is set is counted
\* (its leaf's count or failures rises by 1) and its result is put on its
\* callback queue, when it has one and the result asks for it, and only then
\* does the agent stop.
C15_StopFlagStops ==
    /\ ~running[1] ~> pc[1] = "stopped"
    /\ [][(pc[1] = "handling" /\ ~running[1]) =>
            /\ pc'[1] \in {"handling", "loop"}
            /\ pc'[1] = "loop" =>
                LET before == LeafAt(state, LeafOf(1))
                    after == LeafAt(state', LeafOf(1))
                    res == result'[1][1]
                IN  /\ after.count + after.failures = before.count + before.failures + 1
                    /\ callbacks' =
                         IF Get(res.call_callback, TRUE) /\ Has(cur[1][1].callback_queue)
                         THEN [callbacks EXCEPT ![cur[1][1].id] = Append(@, res)]
                         ELSE callbacks
          ]_vars
    /\ [][(pc[1] # "stopped" /\ pc'[1] = "stopped") => pc[1] \in {"loop", "getting"}]_vars

\* C15 witness: the flag was set and the agent has stopped while the upload
\* U5, which has failed twice, is back on the queue
C15_Witness ==
    /\ pc[1] = "stopped" /\ ~running[1]
    /\ Len(transfer_queue) = 1 /\ transfer_queue[1].id = "U5"
    /\ LeafAt(state, <<1, "s2", "upload", "xlog">>).failures = 2

\* C16: an agent that gets a request whose type is none of UPLOAD, DOWNLOAD
\* and QUIT takes it off the transfer queue and is back at the top of its loop
\* in that step, with self.running as it was: no statistics leaf, no callback
\* queue, nothing of the compression queue, of the storage, of the registry or
\* of the disk changes, and the request is not put back.
C16_UnknownOperationDropped ==
    [][\A w \in Workers :
        (/\ pc[w] = "getting" /\ pc'[w] # "getting"
         /\ transfer_queue # <<>>
         /\ Head(transfer_queue).type \notin {"UPLOAD", "DOWNLOAD", "QUIT"}) =>
            /\ pc'[w] = "loop"
            /\ transfer_queue' = Tail(transfer_queue)
            /\ UNCHANGED <<state, callbacks, compression_queue, objects, fs, fail_left,
                           site_transfers, built, running, result>>
      ]_vars

\* C16 witness: the LIST request X1, the only one handed over, was taken and
\* the agent is at the top of its loop; nothing was counted, published or built
C16_Witness ==
    /\ pc[1] = "loop" /\ running[1]
    /\ Has(cur[1]) /\ cur[1][1].id = "X1"
    /\ todo = {} /\ transfer_queue = <<>> /\ compression_queue = <<>>
    /\ callbacks["X1"] = <<>>
    /\ \A n \in LeafNames : LeafAt(state, n) = EMPTY
    /\ \A s \in Sites : built[1][s] = 0 /\ state[1][s] = <<>>
    /\ objects = InitialObjects /\ fs = InitialFiles

\* C17: once an agent's registry holds the storage of a site, a call of
\* get_object_storage for the site returns that storage without looking at the
\* configuration, constructs nothing and leaves the registry as it is; no step
\* replaces the storage or constructs another for the site; and the storages
\* constructed for a site over the agent's life are those of the one call that
\* filled the registry, one for each provider entry of the site.
C17_StorageCached ==
    /\ [](\A w \in Workers, s \in Sites :
            /\ Has(site_transfers[w][s]) =>
                /\ get_object_storage(site_transfers[w], s) =
                      [storage |-> site_transfers[w][s], raised |-> FALSE,
                       transfers |-> site_transfers[w], built |-> 0, read |-> FALSE]
                /\ built[w][s] = Len(Config[s])
            /\ ~Has(site_transfers[w][s]) => built[w][s] = 0)
    /\ [][\A w \in Workers, s \in Sites :
            Has(site_transfers[w][s]) =>
                /\ site_transfers'[w][s] = site_transfers[w][s]
                /\ built'[w][s] = built[w][s]
         ]_vars

\* C17 witness: the upload U3 and then the download D2 went to site s1, whose
\* one storage was constructed once
C17_Witness ==
    /\ LeafAt(state, <<1, "s1", "upload", "timeline">>).count = 1
    /\ LeafAt(state, <<1, "s1", "download", "xlog">>).count = 1
    /\ site_transfers[1]["s1"] = <<[kind |-> "s3", bucket |-> "b1"]>>
    /\ built[1]["s1"] = 1

\* the objects stored under the keys of site s
ObjectsOf(s) == {o \in objects : o.key[1] = s}

\* C18 as claimed: the storage an agent holds for a site, and transfers with,
\* is the one constructed from the first provider entry of the site.
C18_Original ==
    \A w \in Workers, s \in Sites :
        Has(site_transfers[w][s]) =>
            /\ site_transfers[w][s] = <<get_object_storage_transfer(Config[s][1])>>
            /\ \A o \in ObjectsOf(s) : o.bucket = Config[s][1].bucket

\* C18 as amended: a storage is constructed for each provider entry of the
\* site, in the order of the mapping, and the one an agent holds for the site,
\* and transfers with, is the one constructed from the last entry.
C18_LastEntryWins ==
    \A w \in Workers, s \in Sites :
        Has(site_transfers[w][s]) =>
            /\ site_transfers[w][s] =
                  <<get_object_storage_transfer(Config[s][Len(Config[s])])>>
            /\ built[w][s] = Len(Config[s])
            /\ \A o \in ObjectsOf(s) : o.bucket = Config[s][Len(Config[s])].bucket

\* C18 witness: U7 went to site s3, whose providers are s3 and google in that
\* order: two storages were constructed and the object is in google's bucket
C18_Witness ==
    /\ built[1]["s3"] = 2
    /\ site_transfers[1]["s3"] = <<[kind |-> "google", bucket |-> "g3"]>>
    /\ \E o \in objects :
          /\ o.key = <<"s3", "/", "basebackup", "/", "1">>
          /\ o.bucket = "g3" /\ o.blob = <<9>>

\* C20: the iteration of an upload whose request holds a blob leaves the local
\* disk as it is, whether the upload is stored or fails, whatever its filetype.
C20_MemoryUploadKeepsFiles ==
    [][\A w \in Workers :
        (Handled(w) /\ cur[w][1].type = "UPLOAD" /\ Has(cur[w][1].blob)) =>
            /\ fs' = fs
            /\ ~cleanup_raised'[w]
      ]_vars

\* C20 witness: the basebackup U7 was stored from memory after a failed
\* attempt, and the files of its directory and every other file are there
C20_Witness ==
    /\ pc[1] = "loop" /\ Has(cur[1]) /\ cur[1][1].id = "U7"
    /\ result[1] = <<[success |-> TRUE, call_callback |-> <<>>]>>
    /\ LeafAt(state, <<1, "s3", "upload", "basebackup">>) \in
          {[data |-> 1, count |-> 1, time_taken |-> t, failures |-> 1] : t \in 0..MaxElapsed}
    /\ \E o \in objects : o.key = <<"s3", "/", "basebackup", "/", "1">>
    /\ BasePath \in fs /\ BaseOther \in fs
    /\ fs = InitialFiles

\* how often request r is on queue q
Occurrences(q, r) == Cardinality({k \in 1..Len(q) : q[k] = r})

\* the agents whose handler call has request r (p and c: the agents' pc and cur)
InHands(p, c, r) == {w \in Workers : p[w] = "handling" /\ c[w] = <<r>>}

\* the upload r is done: it is stored and its success is on its callback queue
Completed(objs, cbs, r) ==
    /\ StoredIn(objs, r)
    /\ cbs[r.id] = <<[success |-> TRUE, call_callback |-> <<>>]>>

\* in how many places request r is: on the transfer queue, once for each time
\* it is there; in the handler call of an agent, once for each agent; done
Places(q, p, c, objs, cbs, r) ==
    Occurrences(q, r) + Cardinality(InHands(p, c, r))
        + (IF Completed(objs, cbs, r) THEN 1 ELSE 0)

MultiUploads == {r \in MultiRequests : r.type = "UPLOAD"}

\* C19: with two agents taking from the one transfer queue, an upload with a
\* callback queue is in no place before a producer hands it over and never in
\* two places (twice on the transfer queue, in the handler calls of two
\* agents, on the queue and in a handler call, or done and still around); the
\* step that hands it over puts it in one place (on the transfer queue, in the
\* handler call of one agent, or done), and it is in one place after every
\* step from then on, whichever agent or producer takes the step and whether
\* or not an agent has stopped.
C19_RequestConservation ==
    /\ [](\A r \in MultiUploads :
            /\ Places(transfer_queue, pc, cur, objects, callbacks, r) <= 1
            /\ r \in todo => Places(transfer_queue, pc, cur, objects, callbacks, r) = 0)
    /\ [][\A r \in MultiUploads :
            (\/ r \in todo /\ r \notin todo'
             \/ Places(transfer_queue, pc, cur, objects, callbacks, r) = 1) =>
                Places(transfer_queue', pc', cur', objects', callbacks', r) = 1
         ]_vars

\* C19 witness: agent 1 has put U5 back on the queue twice and agent 2 has it
\* in its handler call, after agent 2 has stored U3
C19_Witness ==
    /\ pc[2] = "handling" /\ cur[2][1].id = "U5"
    /\ pc[1] \in {"loop", "getting"}
    /\ LeafAt(state, <<1, "s2", "upload", "xlog">>).failures = 2
    /\ LeafAt(state, <<2, "s1", "upload", "timeline">>).count = 1
    /\ callbacks["U3"] = <<[success |-> TRUE, call_callback |-> <<>>]>>
    /\ transfer_queue = <<>>

====
